---- MODULE Spec2Model ----
(***************************************************************************)
(* Model of generate_test_data: script.py runs load_input_file_paths,      *)
(* load_depth_data_sets (which calls load_depth_data_frames per source)    *)
(* and create_heatmap per data set (src/utilities.py).                     *)
(*                                                                         *)
(* Paths, file names and formatted numbers are sequences of one-character  *)
(* strings.  A float64 value is represented by the 8 bytes it is read      *)
(* from.  An ndarray is a record [shape, frames].                          *)
(***************************************************************************)
EXTENDS Integers, Sequences, FiniteSets, TLC

\* ------------------------------------------------------------------ bounds
MaxFiles == 2
MaxW == 2
MaxH == 2
MaxValues == 4

\* ------------------------------------------------------- program constants
ItemSize == 8
INPUT_FOLDER == <<"i", "n">>
OUTPUT_FOLDER == <<"o", "u", "t">>
Sep == "/"
\* os.path.dirname(__file__) of utilities.py
ModuleDir == <<"/", "s">>

\* ------------------------------------------------------- environment sets
\* the input_data_dir arguments tried: the default (relative) and an absolute one
InputDirs == {INPUT_FOLDER, <<"/">> \o INPUT_FOLDER}
\* names a directory entry can have
Names == { <<"a", ".", "b", "i", "n">>,
           <<"b", ".", "b", "i", "n">>,
           <<"c", ".", "t", "x", "t">>,
           <<".", "b", "i", "n">> }
UUIDs == { <<"u", "1">>, <<"u", "2">> }
\* what open(file_name, "rb") can do to a path that passed the scan
OpenOutcomes == {"ok", "FileNotFoundError", "PermissionError"}
\* byte lengths a file can have
ByteLens == 0 .. (ItemSize * MaxValues + ItemSize - 1)

NoError == [type |-> "none", file |-> <<>>]

\* ------------------------------------------------------------ os.path
isabs(p) == Len(p) > 0 /\ p[1] = Sep

join(a, b) ==
    IF isabs(b) THEN b
    ELSE IF a = <<>> \/ a[Len(a)] = Sep THEN a \o b
    ELSE a \o <<Sep>> \o b

\* index of the last occurrence of ch in p, 0 when there is none
rfind(p, ch) ==
    LET hits == {i \in 1..Len(p) : p[i] = ch}
    IN IF hits = {} THEN 0 ELSE CHOOSE i \in hits : \A j \in hits : j <= i

\* os.path.splitext: the extension starts at the last dot of the last
\* component, unless only dots precede it there
splitext(p) ==
    LET sepIndex == rfind(p, Sep)
        dotIndex == rfind(p, ".")
    IN IF dotIndex > sepIndex
          /\ \E k \in (sepIndex + 1)..(dotIndex - 1) : p[k] # "."
       THEN <<SubSeq(p, 1, dotIndex - 1), SubSeq(p, dotIndex, Len(p))>>
       ELSE <<p, <<>>>>

\* p.split(os.path.sep)[-1]
LastComponent(p) == SubSeq(p, rfind(p, Sep) + 1, Len(p))

BinExt == <<".", "b", "i", "n">>

VARIABLES
    input_data_dir,  \* argument of load_input_file_paths
    dir_exists,      \* file system: os.path.exists(data_abs_path)
    listing,         \* file system: os.listdir order, [name, isfile] per entry
    width, height,   \* load_depth_data_sets arguments (defaults 80 and 60)
    pc,              \* position of the script
    data_abs_path,   \* load_input_file_paths local
    scan_i,          \* entries of listing already visited
    file_names,      \* load_input_file_paths local / return value
    out,             \* printed messages, in order
    exit_status,     \* -1 while running
    uncaught,        \* exception that left the script, NoError when none
    load_i,          \* sources load_depth_data_sets has gone through
    cur_buf,         \* bytes of the file the last open/fromfile read
    calls,           \* one record per load_depth_data_frames call
    data_sets,       \* dict in insertion order: sequence of [key, value]
    render_i,        \* items of data_sets already rendered
    frame_no,        \* create_heatmap loop variable
    data_set_uuid,   \* create_heatmap local
    output_dir,      \* create_heatmap local
    written          \* plt.savefig calls so far: [data_set, filename]

vars == <<input_data_dir, dir_exists, listing, width, height, pc,
          data_abs_path, scan_i, file_names, out, exit_status, uncaught,
          load_i, cur_buf, calls, data_sets, render_i, frame_no, data_set_uuid,
          output_dir, written>>

fsVars == <<input_data_dir, dir_exists, listing, width, height>>
scanVars == <<data_abs_path, scan_i, file_names>>
loadVars == <<cur_buf, calls, data_sets>>
renderVars == <<render_i, frame_no, data_set_uuid, output_dir, written>>

\* sequences of distinct entries, at most MaxFiles long
Listings ==
    UNION { { l \in [1..n -> [name : Names, isfile : BOOLEAN]] :
                \A i, j \in 1..n : i # j => l[i].name # l[j].name }
            : n \in 0..MaxFiles }

Init ==
    /\ input_data_dir \in InputDirs
    /\ dir_exists \in BOOLEAN
    /\ listing \in Listings
    /\ (~dir_exists => listing = <<>>)
    /\ width \in 1..MaxW
    /\ height \in 1..MaxH
    /\ pc = "start"
    /\ data_abs_path = <<>>
    /\ scan_i = 0
    /\ file_names = <<>>
    /\ out = <<>>
    /\ exit_status = -1
    /\ uncaught = NoError
    /\ load_i = 0
    /\ cur_buf = <<>>
    /\ calls = <<>>
    /\ data_sets = <<>>
    /\ render_i = 0
    /\ frame_no = 0
    /\ data_set_uuid = <<>>
    /\ output_dir = <<>>
    /\ written = <<>>

Msg(kind, arg) == [msg |-> kind, arg |-> arg]

\* ---------------------------------------------- load_input_file_paths
ResolveDir(d) == IF isabs(d) THEN join(ModuleDir, d) ELSE d

\* lines 55-64: resolve the directory, exit(1) when it does not exist
ScanStart ==
    /\ pc = "start"
    /\ data_abs_path' = ResolveDir(input_data_dir)
    /\ IF ~dir_exists
       THEN /\ out' = Append(out, Msg("does_not_exist", data_abs_path'))
            /\ exit_status' = 1
            /\ pc' = "exited"
       ELSE /\ pc' = "scan"
            /\ UNCHANGED <<out, exit_status>>
    /\ UNCHANGED <<fsVars, scan_i, file_names, uncaught, load_i, loadVars,
                   renderVars>>

\* lines 66-79: one iteration over os.listdir
ScanEntry ==
    /\ pc = "scan"
    /\ scan_i < Len(listing)
    /\ LET e == listing[scan_i + 1]
           abs_file_path == join(data_abs_path, e.name)
       IN /\ scan_i' = scan_i + 1
          /\ IF ~e.isfile
             THEN /\ out' = Append(out, Msg("could_not_load", abs_file_path))
                  /\ UNCHANGED file_names
             ELSE IF splitext(e.name)[2] # BinExt
             THEN /\ out' = Append(out, Msg("skipping", e.name))
                  /\ UNCHANGED file_names
             ELSE /\ file_names' = Append(file_names, abs_file_path)
                  /\ UNCHANGED out
    /\ UNCHANGED <<fsVars, pc, data_abs_path, exit_status, uncaught,
                   load_i, loadVars, renderVars>>

\* ScanEnd without the exit(1) of lines 81-83: an empty list is returned
ScanEnd_NoExit ==
    /\ pc = "scan"
    /\ scan_i = Len(listing)
    /\ pc' = "load"
    /\ UNCHANGED <<fsVars, scanVars, out, exit_status, uncaught, load_i,
                   loadVars, renderVars>>

\* lines 81-85 (and script.py line 6): exit(1) on an empty result, else return
ScanEnd ==
    /\ pc = "scan"
    /\ scan_i = Len(listing)
    /\ IF Len(file_names) = 0
       THEN /\ out' = Append(out, Msg("is_empty", data_abs_path))
            /\ exit_status' = 1
            /\ pc' = "exited"
       ELSE /\ pc' = "load"
            /\ UNCHANGED <<out, exit_status>>
    /\ UNCHANGED <<fsVars, scanVars, uncaught, load_i, loadVars, renderVars>>

\* ------------------------------------------------------------- numpy
\* the file contents tried: n bytes, byte p holding p mod 256
Ramp(n) == [p \in 1..n |-> (p - 1) % 256]

\* fromfile with dtype=np.float32: 4-byte items
fromfile_float32(buf) ==
    [k \in 1..(Len(buf) \div 4) |-> SubSeq(buf, 4 * (k - 1) + 1, 4 * k)]

\* np.fromfile(file, dtype=np.float64): whole 8-byte items only, a trailing
\* partial item is left unread
fromfile(buf) ==
    [k \in 1..(Len(buf) \div ItemSize) |->
        SubSeq(buf, ItemSize * (k - 1) + 1, ItemSize * k)]

\* data.reshape(-1, d1, d2) of a 1-D array whose size d1*d2 divides (C order)
reshape(data, d1, d2) ==
    LET n == Len(data) \div (d1 * d2)
    IN [shape |-> <<n, d1, d2>>,
        frames |-> [i \in 1..n |-> [r \in 1..d1 |-> [c \in 1..d2 |->
                       data[(i - 1) * d1 * d2 + (r - 1) * d2 + c]]]]]

\* np.array([])
EmptyArray == [shape |-> <<0>>, frames |-> <<>>]

\* data_array.shape[0]
NumFrames(a) == a.shape[1]

\* ---------------------------------------------- load_depth_data_frames
\* load_depth_data_frames with data.reshape(-1, width, height)
load_depth_data_frames_Swapped(file_name, opened, buf, w, h) ==
    IF opened = "FileNotFoundError"
    THEN [kind |-> "returned", value |-> EmptyArray,
          printed |-> <<Msg("FileNotFoundError", file_name)>>]
    ELSE IF opened # "ok"
    THEN [kind |-> opened, value |-> EmptyArray, printed |-> <<>>]
    ELSE LET data == fromfile(buf)
         IN IF Len(data) % (w * h) # 0
            THEN [kind |-> "ValueError", value |-> EmptyArray, printed |-> <<>>]
            ELSE [kind |-> "returned", value |-> reshape(data, w, h),
                  printed |-> <<>>]

\* load_depth_data_frames without the print(e) of line 142
load_depth_data_frames_Silent(file_name, opened, buf, w, h) ==
    IF opened = "FileNotFoundError"
    THEN [kind |-> "returned", value |-> EmptyArray, printed |-> <<>>]
    ELSE IF opened # "ok"
    THEN [kind |-> opened, value |-> EmptyArray, printed |-> <<>>]
    ELSE LET data == fromfile(buf)
         IN IF Len(data) % (w * h) # 0
            THEN [kind |-> "ValueError", value |-> EmptyArray, printed |-> <<>>]
            ELSE [kind |-> "returned", value |-> reshape(data, h, w),
                  printed |-> <<>>]

\* lines 138-148, given what open() does and the bytes the file holds
load_depth_data_frames(file_name, opened, buf, w, h) ==
    IF opened = "FileNotFoundError"
    THEN [kind |-> "returned", value |-> EmptyArray,
          printed |-> <<Msg("FileNotFoundError", file_name)>>]
    ELSE IF opened # "ok"
    THEN [kind |-> opened, value |-> EmptyArray, printed |-> <<>>]
    ELSE LET data == fromfile(buf)
         IN IF Len(data) % (w * h) # 0
            THEN [kind |-> "ValueError", value |-> EmptyArray, printed |-> <<>>]
            ELSE [kind |-> "returned", value |-> reshape(data, h, w),
                  printed |-> <<>>]

\* ------------------------------------------------ load_depth_data_sets
HasKey(d, k) == \E i \in 1..Len(d) : d[i].key = k

Lookup(d, k) == d[CHOOSE i \in 1..Len(d) : d[i].key = k].value

\* d[k] = v on a dict that keeps insertion order
DictSet(d, k, v) ==
    IF HasKey(d, k)
    THEN [i \in 1..Len(d) |-> IF d[i].key = k THEN [key |-> k, value |-> v]
                              ELSE d[i]]
    ELSE Append(d, [key |-> k, value |-> v])

\* an except clause that stores an empty placeholder for the failed source
OnValueError_Placeholder(d, file_name) == DictSet(d, file_name, EmptyArray)

\* lines 112-114: what the except clause does to the dict
OnValueError(d, file_name) == d

\* lines 109-114: one iteration, the call of load_depth_data_frames included
LoadSource ==
    /\ pc = "load"
    /\ load_i < Len(file_names)
    /\ \E opened \in OpenOutcomes, n \in ByteLens :
         /\ (opened # "ok" => n = 0)
         /\ LET file_name == file_names[load_i + 1]
                r == load_depth_data_frames(file_name, opened, Ramp(n),
                                            width, height)
            IN /\ cur_buf' = Ramp(n)
               /\ calls' = Append(calls, [file |-> file_name, opened |-> opened,
                                          kind |-> r.kind, value |-> r.value])
               /\ load_i' = load_i + 1
               /\ IF r.kind = "returned"
                  THEN /\ data_sets' = DictSet(data_sets, file_name, r.value)
                       /\ out' = out \o r.printed
                       /\ UNCHANGED <<pc, exit_status, uncaught>>
                  ELSE IF r.kind = "ValueError"
                  THEN /\ data_sets' = OnValueError(data_sets, file_name)
                       /\ out' = out \o r.printed
                                     \o <<Msg("ValueError", file_name)>>
                       /\ UNCHANGED <<pc, exit_status, uncaught>>
                  ELSE /\ uncaught' = [type |-> r.kind, file |-> file_name]
                       /\ exit_status' = 1
                       /\ pc' = "exited"
                       /\ out' = out \o r.printed
                       /\ UNCHANGED data_sets
    /\ UNCHANGED <<fsVars, scanVars, renderVars>>

\* ------------------------------------------------------ str.format
DigitChar(d) == <<"0", "1", "2", "3", "4", "5", "6", "7", "8", "9">>[d + 1]

RECURSIVE Digits(_)
Digits(n) == IF n < 10 THEN <<DigitChar(n)>>
             ELSE Digits(n \div 10) \o <<DigitChar(n % 10)>>

RECURSIVE ZeroPad(_, _)
ZeroPad(s, n) == IF Len(s) >= n THEN s ELSE ZeroPad(<<"0">> \o s, n)

\* f"{frame_no:04d}"
Pad4(n) == ZeroPad(Digits(n), 4)

\* line 116 and script.py lines 7-9: the loader returns, the count is printed
LoadReturn ==
    /\ pc = "load"
    /\ load_i = Len(file_names)
    /\ out' = Append(out, Msg("creating_heatmaps", Digits(Len(data_sets))))
    /\ pc' = "render"
    /\ UNCHANGED <<fsVars, scanVars, load_i, loadVars, exit_status, uncaught,
                   renderVars>>

\* ------------------------------------------------------- create_heatmap
\* lines 166-169
OutputDir(data_set_path) ==
    join(OUTPUT_FOLDER, splitext(LastComponent(data_set_path))[1])

\* a file name that leaves the frame index out
FrameFileName_NoIndex(dir, uuid, n) ==
    join(dir, uuid \o <<"_", "f", "r", "a", "m", "e", "_">> \o Pad4(0)
              \o <<".", "p", "n", "g">>)

\* line 187
FrameFileName(dir, uuid, n) ==
    join(dir, uuid \o <<"_", "f", "r", "a", "m", "e", "_">> \o Pad4(n)
              \o <<".", "p", "n", "g">>)

\* script.py line 11-12 and lines 166-174: the next item, up to the loop
HeatmapStart ==
    /\ pc = "render"
    /\ render_i < Len(data_sets)
    /\ output_dir' = OutputDir(data_sets[render_i + 1].key)
    /\ \E u \in UUIDs : data_set_uuid' = u
    /\ frame_no' = 0
    /\ pc' = "frames"
    /\ UNCHANGED <<fsVars, scanVars, load_i, loadVars, out, exit_status,
                   uncaught, render_i, written>>

\* lines 176-189: one iteration
SaveFrame ==
    /\ pc = "frames"
    /\ LET item == data_sets[render_i + 1]
       IN /\ frame_no < NumFrames(item.value)
          /\ written' = Append(written,
                 [data_set |-> item.key,
                  frame |-> item.value.frames[frame_no + 1],
                  filename |-> FrameFileName(output_dir, data_set_uuid,
                                             frame_no)])
    /\ frame_no' = frame_no + 1
    /\ UNCHANGED <<fsVars, scanVars, load_i, loadVars, out, exit_status,
                   uncaught, pc, render_i, data_set_uuid, output_dir>>

\* the loop of line 176 ends, create_heatmap returns
HeatmapEnd ==
    /\ pc = "frames"
    /\ frame_no = NumFrames(data_sets[render_i + 1].value)
    /\ render_i' = render_i + 1
    /\ pc' = "render"
    /\ UNCHANGED <<fsVars, scanVars, load_i, loadVars, out, exit_status,
                   uncaught, frame_no, data_set_uuid, output_dir, written>>

\* script.py line 11: no item is left, the script ends
Finish ==
    /\ pc = "render"
    /\ render_i = Len(data_sets)
    /\ pc' = "done"
    /\ exit_status' = 0
    /\ UNCHANGED <<fsVars, scanVars, load_i, loadVars, out, uncaught,
                   renderVars>>

Next ==
    \/ ScanStart
    \/ ScanEntry
    \/ ScanEnd
    \/ LoadSource
    \/ LoadReturn
    \/ HeatmapStart
    \/ SaveFrame
    \/ HeatmapEnd
    \/ Finish

Spec == Init /\ [][Next]_vars

\* ------------------------------------------------------------ properties
Last == calls[Len(calls)]

LoaderReturned == pc \in {"render", "frames", "done"}

\* the value of a sequence of decimal digits
RECURSIVE DigitsValue(_)
DigitsValue(s) ==
    IF s = <<>> THEN 0
    ELSE 10 * DigitsValue(SubSeq(s, 1, Len(s) - 1))
         + (CHOOSE d \in 0..9 : DigitChar(d) = s[Len(s)])

\* C1: a file of 8*n bytes with w*h dividing n decodes to exactly n/(w*h)
\* frames (none for the empty file), each of h rows of w columns.
C1_ExactFrameCount ==
    (/\ calls # <<>>
     /\ Last.opened = "ok"
     /\ Len(cur_buf) % ItemSize = 0
     /\ (Len(cur_buf) \div ItemSize) % (width * height) = 0)
    => /\ Last.kind = "returned"
       /\ LET n == (Len(cur_buf) \div ItemSize) \div (width * height)
              f == Last.value.frames
          IN /\ NumFrames(Last.value) = n
             /\ Len(f) = n
             /\ \A i \in 1..n :
                  /\ Len(f[i]) = height
                  /\ \A r \in 1..height : Len(f[i][r]) = width

C1_Witness ==
    /\ calls # <<>>
    /\ Last.opened = "ok"
    /\ Len(cur_buf) = 4 * ItemSize
    /\ width = 2
    /\ height = 1
    /\ Last.kind = "returned"
    /\ NumFrames(Last.value) = 2

\* C2: whenever len(b)/8 is not a multiple of w*h (len(b) itself need not be a
\* multiple of 8), the decode raises the frame-size ValueError and returns
\* nothing.
C2_MismatchFails ==
    (/\ calls # <<>>
     /\ Last.opened = "ok"
     /\ Len(cur_buf) % (ItemSize * width * height) # 0)
    => Last.kind = "ValueError"

\* C3: row-major layout: element (r, c) of frame i is the input value at
\* position i*w*h + r*w + c (its 8 bytes), frames in input order.
C3_RowMajor ==
    (/\ calls # <<>>
     /\ Last.opened = "ok"
     /\ Last.kind = "returned")
    => /\ Last.value.shape = <<NumFrames(Last.value), height, width>>
       /\ \A i \in 0..(NumFrames(Last.value) - 1) :
            \A r \in 0..(height - 1) : \A c \in 0..(width - 1) :
              LET p == i * width * height + r * width + c
              IN Last.value.frames[i + 1][r + 1][c + 1]
                   = SubSeq(cur_buf, ItemSize * p + 1, ItemSize * p + ItemSize)

C3_Witness ==
    /\ calls # <<>>
    /\ Last.kind = "returned"
    /\ width = 2
    /\ height = 2
    /\ NumFrames(Last.value) = 1
    /\ Last.value.frames[1][2][1] = SubSeq(cur_buf, 17, 24)

C5_SoftFailure ==
    \A k \in 1..Len(calls) :
      calls[k].opened # "ok" =>
        /\ calls[k].kind = "returned"
        /\ NumFrames(calls[k].value) = 0
        /\ HasKey(data_sets, calls[k].file)
        /\ NumFrames(Lookup(data_sets, calls[k].file)) = 0

\* C6: no partial-batch abort: whatever happened to the sources before it,
\* every source gets its decode attempt and the loader returns; a run that has
\* ended with sources to load went through all of them and no per-file
\* condition left the loader as an uncaught error.
C6_NoPartialBatchAbort ==
    (pc \in {"exited", "done"} /\ file_names # <<>>)
    => /\ pc = "done"
       /\ load_i = Len(file_names)
       /\ Len(calls) = Len(file_names)
       /\ uncaught = NoError

\* C7: when the directory is missing or holds no matching file, the run has
\* ended with status 1 and a printed message, and no decode or render step
\* has happened.
C7_FatalBeforeDecode ==
    (pc \notin {"start", "scan"} /\ file_names = <<>>)
    => /\ pc = "exited"
       /\ exit_status = 1
       /\ out # <<>>
       /\ out[Len(out)] \in {Msg("does_not_exist", data_abs_path),
                             Msg("is_empty", data_abs_path)}
       /\ load_i = 0
       /\ calls = <<>>
       /\ data_sets = <<>>
       /\ render_i = 0
       /\ written = <<>>

C7_Witness ==
    /\ pc = "exited"
    /\ dir_exists
    /\ Len(listing) = 2
    /\ scan_i = 2
    /\ file_names = <<>>
    /\ exit_status = 1

\* C8: every skipped directory entry and every source whose decode raised the
\* size mismatch or soft-failed has a printed message that names it; a source
\* whose open raised another error ends the run with that error, which carries
\* the source; no source holds the soft-failure result without a message.
Printed(kinds, arg) ==
    \E m \in 1..Len(out) : out[m].msg \in kinds /\ out[m].arg = arg

C9_AbsolutePaths ==
    \A i \in 1..Len(file_names) : isabs(file_names[i])

\* C10: create_heatmap writes exactly one file per frame, for the indices
\* 0..n-1 in increasing order, under pairwise distinct names made of one
\* identifier and the 4-digit zero-padded index; none for an empty sequence.
FilesOf(key) == SelectSeq(written, LAMBDA w : w.data_set = key)

C10_OneFilePerFrame ==
    \A j \in 1..Len(data_sets) :
      LET item == data_sets[j]
          ws == FilesOf(item.key)
          n == NumFrames(item.value)
      IN /\ j <= render_i => Len(ws) = n
         /\ j > render_i + 1 => Len(ws) = 0
         /\ (j = render_i + 1 /\ pc = "frames") => Len(ws) = frame_no
         /\ Len(ws) <= n
         /\ \A a, b \in 1..Len(ws) : a # b => ws[a].filename # ws[b].filename
         /\ \E u \in UUIDs :
              LET prefix == join(OutputDir(item.key),
                                 u \o <<"_", "f", "r", "a", "m", "e", "_">>)
              IN \A k \in 1..Len(ws) :
                   LET name == ws[k].filename
                       field == SubSeq(name, Len(prefix) + 1, Len(name) - 4)
                   IN /\ SubSeq(name, 1, Len(prefix)) = prefix
                      /\ SubSeq(name, Len(name) - 3, Len(name))
                           = <<".", "p", "n", "g">>
                      /\ Len(field) = 4
                      /\ DigitsValue(field) = k - 1
                      /\ ws[k].frame = item.value.frames[k]

C10_Witness ==
    /\ pc = "done"
    /\ Len(data_sets) = 2
    /\ data_sets[1].value = EmptyArray
    /\ NumFrames(data_sets[2].value) = 2
    /\ Len(written) = 2
    /\ written[1].filename # written[2].filename
====
